---- MODULE Spec2Model ----
(***************************************************************************)
(* A model of nixtla/data/tsdataset.py: TimeSeriesDataset (construction,   *)
(* window extraction, samplability filter, batch fetch) and                *)
(* get_default_mask_df.                                                    *)
(*                                                                         *)
(* Conventions.  Tables are sequences of records (one record per row).     *)
(* Arrays are sequences, indexed from 1; every index VALUE that the code   *)
(* stores or returns (series indices, window indices) keeps the code's     *)
(* 0-based value, and is turned into a position with "+ 1" where it is     *)
(* used to subscript.  An Optional argument is a record [some, val].       *)
(***************************************************************************)
EXTENDS Integers, Sequences, FiniteSets, TLC

\* ------------------------------------------------------------------ bounds
\* at most MaxRows rows in the target table (all series together)
MaxRows == 3
\* input_size, output_size and idx_to_sample_freq range over 1..MaxSize
MaxSize == 2
\* ds_in_test ranges over 0..MaxDsInTest
MaxDsInTest == 2
\* a list selection names at most MaxList series
MaxList == 2

\* ----------------------------------------------------------------- helpers
Max(a, b) == IF a >= b THEN a ELSE b
Min(a, b) == IF a <= b THEN a ELSE b

RECURSIVE SumSeq(_)
SumSeq(s) == IF s = <<>> THEN 0 ELSE Head(s) + SumSeq(Tail(s))

RECURSIVE Concat(_)
\* the concatenation of a sequence of sequences
Concat(ss) == IF ss = <<>> THEN <<>> ELSE Head(ss) \o Concat(Tail(ss))

\* the sequence s itself, as a tuple built once (a function constructor is
\* evaluated again on every application)
Eager(s) == s \o <<>>

\* s[-n:] of Python, for n >= 1
LastN(s, n) == SubSeq(s, Max(1, Len(s) - n + 1), Len(s))
\* s[:-n] of Python, for n >= 1
DropLastN(s, n) == SubSeq(s, 1, Len(s) - n)
\* list.index(x): the 0-based position of the first x
Index(s, x) == (CHOOSE i \in 1..Len(s) : s[i] = x /\ \A j \in 1..(i - 1) : s[j] # x) - 1
\* Repeat as numpy's tile does it: the whole sequence n times
Repeat_tile(s, n) == [k \in 1..(Len(s) * n) |-> s[((k - 1) % Len(s)) + 1]] \o <<>>

\* numpy's repeat along axis 0: every element n times, in order
Repeat(s, n) == Eager([k \in 1..(Len(s) * n) |-> s[((k - 1) \div n) + 1]])
\* a[idxs] for a list of 0-based positions
Take(a, idxs) == Eager([k \in 1..Len(idxs) |-> a[idxs[k] + 1]])

NoneVal == [some |-> FALSE, val |-> 0]
Some(v) == [some |-> TRUE, val |-> v]
NoRows == [some |-> FALSE, val |-> <<>>]

\* ------------------------------------------------------------------- state
VARIABLES
    Y_df,       \* target table: rows [unique_id, ds, y]
    X_df,       \* Optional exogenous table: rows [unique_id, ds, x]
    S_df,       \* static table: rows [unique_id, s]
    mask_df,    \* Optional mask table: rows [unique_id, ds, sample_mask (, available_mask)]
    cfg,        \* the scalar arguments of __init__
    phase,      \* "new" | "ready" (constructed) | "failed" (__init__ raised)
    error,      \* what __init__ raised ("" when it did not)
    built_mask, \* the mask table __init__ used (given, completed or built)
    t_cols,     \* self.t_cols
    n_series,   \* self.n_series
    max_len,    \* self.max_len
    first_ds,   \* self.first_ds
    len_sample_chunks, \* self.len_sample_chunks
    ts_tensor,  \* self.ts_tensor [series][channel][time]
    s_matrix,   \* self.s_matrix [series][static]
    len_series, \* self.len_series
    windows_size, \* self.windows_size
    padding,    \* self.padding
    samplable_ts_idxs, \* self.samplable_ts_idxs
    pc,         \* "idle" | "recurse": __getitem__ is about to call itself
    pending,    \* the idx of the pending recursive call
    local,      \* the locals of the latest activation of __getitem__
    ret         \* what the latest fetch returned or raised

inputs == <<Y_df, X_df, S_df, mask_df, cfg>>
attrs == <<built_mask, t_cols, n_series, max_len, first_ds, len_sample_chunks, ts_tensor,
           s_matrix, len_series, windows_size, padding, samplable_ts_idxs>>
fetch == <<pc, pending, local, ret>>
vars == <<inputs, phase, error, attrs, fetch>>

\* ------------------------------------------------- sorting and grouping
Key(r) == <<r.unique_id, r.ds>>
KeyLess(a, b) == a[1] < b[1] \/ (a[1] = b[1] /\ a[2] < b[2])

\* DataFrame.sort_values(by=['unique_id', 'ds'], ignore_index=True); rows of
\* equal key keep their order
SortRows(rows) ==
    LET before(i, j) == KeyLess(Key(rows[i]), Key(rows[j]))
                        \/ (Key(rows[i]) = Key(rows[j]) /\ i < j)
        rank(j) == Cardinality({i \in 1..Len(rows) : before(i, j)}) + 1
    IN  [k \in 1..Len(rows) |-> rows[CHOOSE j \in 1..Len(rows) : rank(j) = k]]

\* the distinct unique_ids of a table, ascending: the order of groupby's groups
RECURSIVE SortedSeq(_)
SortedSeq(S) ==
    IF S = {} THEN <<>>
    ELSE LET m == CHOOSE x \in S : \A y \in S : x <= y
         IN  <<m>> \o SortedSeq(S \ {m})

GroupIds(rows) == SortedSeq({rows[i].unique_id : i \in 1..Len(rows)})

\* the rows of one group, in the table's order
Group(rows, u) == SelectSeq(rows, LAMBDA r : r.unique_id = u)

\* ------------------------------------------------------ get_default_mask_df
\* TailKeys with head in the place of tail: the keys of the first k rows
TailKeys_head(rows, k) ==
    LET srt == SortRows(rows)
        before(j) == Cardinality({i \in 1..(j - 1) :
                                     srt[i].unique_id = srt[j].unique_id})
    IN  {Key(srt[j]) : j \in {i \in 1..Len(srt) : before(i) < k}}

\* groupby('unique_id').tail(k).index of the table sorted by (unique_id, ds),
\* for k >= 0: the keys of the last k rows of every group
TailKeys(rows, k) ==
    LET srt == SortRows(rows)
        after(j) == Cardinality({i \in (j + 1)..Len(srt) :
                                    srt[i].unique_id = srt[j].unique_id})
    IN  {Key(srt[j]) : j \in {i \in 1..Len(srt) : after(i) < k}}

\* the mask table, one row per row of Y_df and in Y_df's order
get_default_mask_df(Y, ds_in_test, is_test) ==
    LET zero_idx == TailKeys(Y, ds_in_test)
        mask == [i \in 1..Len(Y) |->
                    [unique_id |-> Y[i].unique_id, ds |-> Y[i].ds,
                     available_mask |-> 1,
                     sample_mask |-> IF Key(Y[i]) \in zero_idx THEN 0 ELSE 1]]
    IN  IF is_test
        THEN [i \in 1..Len(Y) |-> [mask[i] EXCEPT !.sample_mask = 1 - @]]
        ELSE mask

\* ----------------------------------------------------------------- __init__
HasAvailable(rows) == \A i \in 1..Len(rows) : "available_mask" \in DOMAIN rows[i]

\* mask_df as __init__ hands it on: the given one, with available_mask
\* defaulted to 1 when the column is missing, or the default one
MaskOf(Y, M, c) ==
    IF M.some
    THEN IF HasAvailable(M.val) THEN M.val
         ELSE [i \in 1..Len(M.val) |->
                 [unique_id |-> M.val[i].unique_id, ds |-> M.val[i].ds,
                  sample_mask |-> M.val[i].sample_mask, available_mask |-> 1]]
    ELSE get_default_mask_df(Y, c.ds_in_test, c.is_test)

\* self.len_sample_chunks
LenSampleChunks(c) ==
    IF c.len_sample_chunks.some THEN c.len_sample_chunks.val
    ELSE c.input_size + c.output_size

\* ------------------------------------------------------------- _df_to_lists
Keys(rows) == [i \in 1..Len(rows) |-> Key(rows[i])]

\* X_df, or Y_df[['unique_id', 'ds']] when it is None
XRows(Y, X) == IF X.some THEN X.val ELSE Y

\* list(G.columns[2:])
TCols(X) == <<"y">> \o (IF X.some THEN <<"x">> ELSE <<>>)
            \o <<"available_mask", "sample_mask">>

\* one row of G without unique_id and ds: Y.join(X).join(M), joined by position
GRow(y, x, m, X) == <<y.y>> \o (IF X.some THEN <<x.x>> ELSE <<>>)
                    \o <<m.available_mask, m.sample_mask>>

\* ts_data: per series (groups ascending), the time x channels array
TsData(Y, X, M) ==
    LET Ys == SortRows(Y)
        Xs == SortRows(XRows(Y, X))
        Ms == SortRows(M)
        ids == GroupIds(Ys)
        pos(u) == {k \in 1..Len(Ys) : Ys[k].unique_id = u}
        nth(u, t) == CHOOSE k \in pos(u) : Cardinality({j \in pos(u) : j < k}) = t - 1
    IN  [g \in 1..Len(ids) |->
            [t \in 1..Cardinality(pos(ids[g])) |->
                GRow(Ys[nth(ids[g], t)], Xs[nth(ids[g], t)], Ms[nth(ids[g], t)], X)]]

\* s_data: per static group (ascending), the rows of the group without unique_id
SData(S) ==
    LET Ss == SortRows([i \in 1..Len(S) |-> [unique_id |-> S[i].unique_id, ds |-> 0, s |-> S[i].s]])
        ids == GroupIds(Ss)
    IN  [g \in 1..Len(ids) |-> [k \in 1..Len(Group(Ss, ids[g])) |-> <<Group(Ss, ids[g])[k].s>>]]

\* the assertions of _df_to_lists
Aligned(Y, X, S, M) ==
    /\ Keys(SortRows(XRows(Y, X))) = Keys(SortRows(Y))
    /\ Keys(SortRows(M)) = Keys(SortRows(Y))
    /\ \A g \in 1..Len(SData(S)) : Len(SData(S)[g]) = 1

\* ----------------------------------------------------------- _create_tensor
\* CreateTensorRow writing the series at the left: ts_tensor[idx, :, :L] = ts_idx.T
CreateTensorRow_rightpad(ts, n_channels, maxlen) ==
    [c \in 1..n_channels |->
        [t \in 1..maxlen |-> IF t <= Len(ts) THEN ts[t][c] ELSE 0]]

\* ts_tensor[idx, :, -L:] = ts_idx.T on a zero tensor of width max_len
CreateTensorRow(ts, n_channels, maxlen) ==
    [c \in 1..n_channels |->
        [t \in 1..maxlen |-> IF t > maxlen - Len(ts) THEN ts[t - (maxlen - Len(ts))][c]
                             ELSE 0]]

create_tensor(ts_data, s_data, n_channels, maxlen) ==
    [ts_tensor  |-> [i \in 1..Len(ts_data) |-> CreateTensorRow(ts_data[i], n_channels, maxlen)],
     s_matrix   |-> Concat(s_data),
     len_series |-> [i \in 1..Len(ts_data) |-> Len(ts_data[i])]]

MaxLenOf(ts_data) ==
    CHOOSE m \in {Len(ts_data[i]) : i \in 1..Len(ts_data)} :
        \A i \in 1..Len(ts_data) : Len(ts_data[i]) <= m

\* ----------------------------------------------- _define_attributes_by_mode
\* ModeKnown with the else branch falling through to full mode
ModeKnown_any(mode) == TRUE

ModeKnown(mode) == mode \in {"simple", "full"}

WindowsSize(mode, input_size, output_size, chunks) ==
    IF mode = "simple" THEN input_size + output_size ELSE chunks

Padding(mode, input_size, output_size) ==
    IF mode = "simple" THEN <<input_size, output_size>> ELSE <<0, 0>>

\* ------------------------------------------------ _define_samplable_ts_idxs
MinMask(c, wsize) == IF c.complete_inputs THEN wsize ELSE c.output_size

\* np.argwhere(sum_sample_mask > min_mask): the series indices, ascending
SamplableTsIdxs(tensor, cols, min_mask) ==
    LET sm == Index(cols, "sample_mask") + 1
        hit == {i \in 1..Len(tensor) : SumSeq(tensor[i][sm]) > min_mask}
    IN  SortedSeq({i - 1 : i \in hit})

\* what __init__ raises, "" when it returns
InitError(Y, X, S, M, c) ==
    IF X.some /\ Len(X.val) # Len(Y) THEN "AssertionError"
    ELSE IF M.some /\ Len(M.val) # Len(Y) THEN "AssertionError"
    ELSE IF c.len_sample_chunks.some
            /\ c.len_sample_chunks.val < c.input_size + c.output_size
         THEN "InsufficientChunks"
    ELSE IF ~Aligned(Y, X, S, MaskOf(Y, M, c)) THEN "AssertionError"
    ELSE IF ~ModeKnown(c.mode) THEN "NoWindowStrategy"
    ELSE IF WindowsSize(c.mode, c.input_size, c.output_size, LenSampleChunks(c))
            > c.window_sampling_limit
         THEN "AssertionError"
    ELSE ""

NoSel == [kind |-> "list", start |-> 0, stop |-> 0, list |-> <<>>]
NoLocal == [idx |-> NoSel, windows |-> <<>>, s_matrix |-> <<>>, ts_idxs |-> <<>>,
            windows_idxs |-> <<>>, unfolded |-> FALSE]
NoRet == [kind |-> "none", exc |-> "", idx |-> NoSel,
          batch |-> [S |-> <<>>, Y |-> <<>>, X |-> <<>>, available_mask |-> <<>>,
                     sample_mask |-> <<>>, idxs |-> <<>>]]

\* the state before __init__ runs on the arguments Y, X, S, M, c
InitWith(Y, X, S, M, c) ==
    /\ Y_df = Y /\ X_df = X /\ S_df = S /\ mask_df = M /\ cfg = c
    /\ phase = "new" /\ error = ""
    /\ built_mask = <<>> /\ t_cols = <<>> /\ n_series = 0 /\ max_len = 0
    /\ first_ds = 0 /\ len_sample_chunks = 0
    /\ ts_tensor = <<>> /\ s_matrix = <<>> /\ len_series = <<>>
    /\ windows_size = 0 /\ padding = <<0, 0>> /\ samplable_ts_idxs = <<>>
    /\ pc = "idle" /\ pending = NoSel /\ local = NoLocal /\ ret = NoRet

\* TimeSeriesDataset.__init__
Construct ==
    /\ phase = "new"
    /\ LET err == InitError(Y_df, X_df, S_df, mask_df, cfg)
           M == MaskOf(Y_df, mask_df, cfg)
           ts_data == TsData(Y_df, X_df, M)
           cols == TCols(X_df)
           mlen == MaxLenOf(ts_data)
           packed == create_tensor(ts_data, SData(S_df), Len(cols), mlen)
           wsize == WindowsSize(cfg.mode, cfg.input_size, cfg.output_size,
                                LenSampleChunks(cfg))
       IN  IF err # ""
           THEN /\ phase' = "failed"
                /\ error' = err
                /\ UNCHANGED attrs
           ELSE /\ phase' = "ready"
                /\ error' = ""
                /\ built_mask' = M
                /\ t_cols' = cols
                /\ n_series' = Len(ts_data)
                /\ max_len' = mlen
                /\ first_ds' = Max(mlen - cfg.window_sampling_limit, 0)
                /\ len_sample_chunks' = LenSampleChunks(cfg)
                /\ ts_tensor' = packed.ts_tensor
                /\ s_matrix' = packed.s_matrix
                /\ len_series' = packed.len_series
                /\ windows_size' = wsize
                /\ padding' = Padding(cfg.mode, cfg.input_size, cfg.output_size)
                /\ samplable_ts_idxs' =
                       SamplableTsIdxs(packed.ts_tensor, cols, MinMask(cfg, wsize))
    /\ UNCHANGED <<inputs, fetch>>

\* --------------------------------------------------- _create_windows_tensor
Zeros(n) == [k \in 1..n |-> 0]

\* ConstantPad1d(padding, 0) on one channel row
PadRow(row, pad) == Zeros(pad[1]) \o row \o Zeros(pad[2])

\* Tensor.unfold raises when the dimension is shorter than size
UnfoldOk(len, size) == len >= size

\* UnfoldCount without the slice that starts at 0
UnfoldCount_drop(len, size, step) == (len - size) \div step

\* the number of slices Tensor.unfold(-1, size, step) takes of a row of len
UnfoldCount(len, size, step) == ((len - size) \div step) + 1

\* Tensor.unfold(-1, size, step) on one row: the slices starting 0, step, ...
Unfold(row, size, step) ==
    Eager([j \in 1..UnfoldCount(Len(row), size, step) |->
              SubSeq(row, (j - 1) * step + 1, (j - 1) * step + size)])

\* padder(ts_tensor[i, :, first_ds:]) for the series of 0-based index i
PaddedSeries(i) ==
    Eager([c \in 1..Len(t_cols) |->
              PadRow(SubSeq(ts_tensor[i + 1][c], first_ds + 1, max_len), padding)])

\* unfold, permute(0, 2, 1, 3): the windows of one series, [window][channel][step]
SeriesWindows(i, size, step) ==
    LET rows == PaddedSeries(i)
        unfolded == Eager([c \in 1..Len(rows) |-> Unfold(rows[c], size, step)])
    IN  Eager([j \in 1..Len(unfolded[1]) |->
                  Eager([c \in 1..Len(rows) |-> unfolded[c][j]])])

\* _create_windows_tensor for the series indices idxs (a list of 0-based indices):
\* ok is FALSE when unfold raises
create_windows_tensor(idxs) ==
    LET width == (max_len - first_ds) + padding[1] + padding[2]
        ok == UnfoldOk(width, windows_size)
        windows == Concat([k \in 1..Len(idxs) |->
                              SeriesWindows(idxs[k], windows_size, cfg.idx_to_sample_freq)])
        n_ts == Len(idxs)
        windows_per_serie == Len(windows) \div n_ts
    IN  IF ~ok
        THEN [ok |-> FALSE, windows |-> <<>>, s_matrix |-> <<>>, ts_idxs |-> <<>>]
        ELSE [ok |-> TRUE,
              windows  |-> windows,
              s_matrix |-> Repeat(Take(s_matrix, idxs), windows_per_serie),
              ts_idxs  |-> Repeat(idxs, windows_per_serie)]

\* ---------------------------------------------- _get_samplable_windows_idxs
Bit(b) == IF b THEN 1 ELSE 0

SampleCondition(w, cols, output_size) ==
    Bit(SumSeq(LastN(w[Index(cols, "sample_mask") + 1], output_size)) = output_size)

AvConditionIn(w, cols, output_size, wsize, complete_inputs) ==
    IF complete_inputs
    THEN Bit(SumSeq(DropLastN(w[Index(cols, "available_mask") + 1], output_size))
             = wsize - output_size)
    ELSE SampleCondition(w, cols, output_size)

\* AvConditionOut over the output segment alone, without the step before it
AvConditionOut_short(w, cols, output_size, complete_outputs) ==
    IF complete_outputs
    THEN Bit(SumSeq(LastN(w[Index(cols, "available_mask") + 1], output_size))
             = output_size)
    ELSE SampleCondition(w, cols, output_size)

AvConditionOut(w, cols, output_size, complete_outputs) ==
    IF complete_outputs
    THEN Bit(SumSeq(LastN(w[Index(cols, "available_mask") + 1], output_size + 1))
             = output_size + 1)
    ELSE SampleCondition(w, cols, output_size)

\* t.nonzero(av_condition_in * av_condition_out * sample_condition > 0): the
\* 0-based indices of the windows, ascending
get_samplable_windows_idxs(ts_windows_flatten) ==
    SortedSeq({k - 1 : k \in {j \in 1..Len(ts_windows_flatten) :
        AvConditionIn(ts_windows_flatten[j], t_cols, cfg.output_size, windows_size,
                      cfg.complete_inputs)
        * AvConditionOut(ts_windows_flatten[j], t_cols, cfg.output_size,
                         cfg.complete_outputs)
        * SampleCondition(ts_windows_flatten[j], t_cols, cfg.output_size) > 0}})

\* -------------------------------------------------------------- __getitem__
\* An index selection: an int (turned into the list [idx] on entry), a slice
\* start:stop, or a list of series indices.
IntSel(i) == [kind |-> "int", start |-> 0, stop |-> 0, list |-> <<i>>]
SliceSel(a, b) == [kind |-> "slice", start |-> a, stop |-> b, list |-> <<>>]
ListSel(l) == [kind |-> "list", start |-> 0, stop |-> 0, list |-> l]

\* if isinstance(idx, int): idx = [idx]
Normalise(sel) == IF sel.kind = "int" THEN ListSel(sel.list) ELSE sel

\* the series indices a selection picks of n series: range(*idx.indices(n))
Resolve(sel, n) ==
    IF sel.kind = "slice"
    THEN [k \in 1..Max(Min(sel.stop, n) - Min(sel.start, n), 0) |-> Min(sel.start, n) + k - 1]
    ELSE sel.list

\* t.unique(ts_idxs, return_counts=True)[1].cumsum(0) - 1
LastIdxs(ts_idxs) ==
    LET uniq == SortedSeq({ts_idxs[k] : k \in 1..Len(ts_idxs)})
        count(u) == Cardinality({k \in 1..Len(ts_idxs) : ts_idxs[k] = u})
    IN  [m \in 1..Len(uniq) |-> SumSeq([j \in 1..m |-> count(uniq[j])]) - 1]

\* the batch of lines 529-552, from the extractor's output and the filter's
Batch(ext, windows_idxs) ==
    LET w1 == Take(ext.windows, windows_idxs)
        S1 == Take(ext.s_matrix, windows_idxs)
        i1 == Take(ext.ts_idxs, windows_idxs)
        last == cfg.last_samplable_window
        last_idxs == LastIdxs(i1)
        windows == IF last THEN Take(w1, last_idxs) ELSE w1
        \* line 537 subscripts s_matrix, the extractor's, not S
        S == IF last THEN Take(ext.s_matrix, last_idxs) ELSE S1
        ts_idxs == IF last THEN Take(i1, last_idxs) ELSE i1
        y == Index(t_cols, "y")
        am == Index(t_cols, "available_mask")
        sm == Index(t_cols, "sample_mask")
    IN  [S |-> S,
         Y |-> [k \in 1..Len(windows) |-> windows[k][y + 1]],
         X |-> [k \in 1..Len(windows) |-> SubSeq(windows[k], y + 2, am)],
         available_mask |-> [k \in 1..Len(windows) |-> windows[k][am + 1]],
         sample_mask |-> [k \in 1..Len(windows) |-> windows[k][sm + 1]],
         idxs |-> ts_idxs]

\* Raise handing back an empty batch in the place of the exception
Raise_swallow(exc, sel) == [NoRet EXCEPT !.kind = "batch"]

Raise(exc, sel) == [NoRet EXCEPT !.kind = "raise", !.exc = exc, !.idx = sel]
Return(b) == [NoRet EXCEPT !.kind = "batch", !.batch = b]

\* np.random.choice(self.samplable_ts_idxs, size=n_ts).tolist()
RandomChoices(n_ts) ==
    [1..n_ts -> {samplable_ts_idxs[k] : k \in 1..Len(samplable_ts_idxs)}]

\* one activation of __getitem__ on the selection sel (already a slice or a list)
\* (the locals of lines 515-516 are bound once, as values)
Activation(sel) ==
    \E idxs \in {Resolve(sel, n_series)} :
    \E ext \in {create_windows_tensor(idxs)} :
    \E windows_idxs \in {get_samplable_windows_idxs(ext.windows)} :
        IF ~ext.ok
        THEN /\ local' = [NoLocal EXCEPT !.idx = sel]
             /\ ret' = Raise("RuntimeError", sel)
             /\ pc' = "idle" /\ pending' = NoSel
        ELSE /\ local' = [idx |-> sel, windows |-> ext.windows, s_matrix |-> ext.s_matrix,
                          ts_idxs |-> ext.ts_idxs, windows_idxs |-> windows_idxs,
                          unfolded |-> TRUE]
             /\ IF windows_idxs = <<>>
                THEN IF cfg.skip_nonsamplable
                     THEN IF samplable_ts_idxs = <<>>
                          THEN /\ ret' = Raise("ValueError", sel)
                               /\ pc' = "idle" /\ pending' = NoSel
                          ELSE /\ \E new \in RandomChoices(Len(idxs)) :
                                      pending' = ListSel(new)
                               /\ pc' = "recurse"
                               /\ ret' = NoRet
                     ELSE /\ ret' = Raise("NotSamplable", sel)
                          /\ pc' = "idle" /\ pending' = NoSel
                ELSE /\ ret' = Return(Batch(ext, windows_idxs))
                     /\ pc' = "idle" /\ pending' = NoSel

\* the selections a caller passes for a dataset of n series: every int, every
\* non-empty slice a:b and every list of 1..MaxList in-range indices
Selections(n) ==
    {IntSel(i) : i \in 0..(n - 1)}
    \cup UNION {{SliceSel(a, b) : b \in (a + 1)..n} : a \in 0..(n - 1)}
    \cup UNION {{ListSel(l) : l \in [1..m -> 0..(n - 1)]} : m \in 1..MaxList}

\* GetItem keeping the padded tensor of line 400 in the place of ts_tensor
GetItem_inplace ==
    /\ phase = "ready" /\ pc = "idle" /\ ret.kind = "none"
    /\ \E sel \in Selections(n_series) : Activation(Normalise(sel))
    /\ ts_tensor' = [i \in 1..Len(ts_tensor) |-> PaddedSeries(i - 1)]
    /\ UNCHANGED <<inputs, phase, error, built_mask, t_cols, n_series, max_len,
                   first_ds, len_sample_chunks, s_matrix, len_series, windows_size,
                   padding, samplable_ts_idxs>>

\* a call of dataset[idx] by the user
GetItem ==
    /\ phase = "ready" /\ pc = "idle" /\ ret.kind = "none"
    /\ \E sel \in Selections(n_series) : Activation(Normalise(sel))
    /\ UNCHANGED <<inputs, phase, error, attrs>>

\* the recursive call self[idx] of line 521
GetItemRecurse ==
    /\ phase = "ready" /\ pc = "recurse"
    /\ Activation(pending)
    /\ UNCHANGED <<inputs, phase, error, attrs>>

\* the caller is done with what the fetch returned or raised; batches are not
\* kept by the dataset
Consume ==
    /\ phase = "ready" /\ pc = "idle" /\ ret.kind # "none"
    /\ ret' = NoRet /\ local' = NoLocal
    /\ UNCHANGED <<inputs, phase, error, attrs, pc, pending>>

\* ------------------------------------------------------------------ inputs
\* The panels the specifications start from.  Series are named 1, 2, ...; the
\* target of series u at its d-th timestamp is 10u + d, its exogenous value
\* 50 + 10u + d and its static value 100 + u, so that every value of a tensor
\* names the series and the timestamp it was read from, and none is 0.
YVal(u, d) == 10 * u + d
XVal(u, d) == 50 + 10 * u + d
SVal(u) == 100 + u

\* the lengths of the series of a panel of at most MaxRows rows
AllLens ==
    {l \in UNION {[1..n -> 1..MaxRows] : n \in 1..MaxRows} : SumSeq(l) <= MaxRows}

\* the keys (unique_id, ds) of a panel, sorted; timestamps are 1, 2, ...
PanelKeys(lens) == Concat([u \in 1..Len(lens) |-> [d \in 1..lens[u] |-> <<u, d>>]])

YRowsOf(keys) ==
    [i \in 1..Len(keys) |->
        [unique_id |-> keys[i][1], ds |-> keys[i][2], y |-> YVal(keys[i][1], keys[i][2])]]
XRowsOf(keys) ==
    [i \in 1..Len(keys) |->
        [unique_id |-> keys[i][1], ds |-> keys[i][2], x |-> XVal(keys[i][1], keys[i][2])]]
SRowsOf(keys) ==
    LET ids == SortedSeq({keys[i][1] : i \in 1..Len(keys)})
    IN  [g \in 1..Len(ids) |-> [unique_id |-> ids[g], s |-> SVal(ids[g])]]
\* a mask table without the available_mask column
SampleMaskRows(keys, sm) ==
    [i \in 1..Len(keys) |->
        [unique_id |-> keys[i][1], ds |-> keys[i][2], sample_mask |-> sm[i]]]
\* a mask table with both columns
MaskRows(keys, am, sm) ==
    [i \in 1..Len(keys) |->
        [unique_id |-> keys[i][1], ds |-> keys[i][2], sample_mask |-> sm[i],
         available_mask |-> am[i]]]

Bits(n) == [1..n -> {0, 1}]
Sizes == 1..MaxSize
\* the window widths the sizes allow, and one more
Widths == 1..(2 * MaxSize + 1)

\* the defaults of __init__'s keyword arguments
Defaults ==
    [ds_in_test |-> 0, is_test |-> FALSE, input_size |-> 15, output_size |-> 1,
     window_sampling_limit |-> 20, idx_to_sample_freq |-> 1,
     complete_inputs |-> FALSE, complete_outputs |-> TRUE,
     len_sample_chunks |-> NoneVal, mode |-> "simple",
     skip_nonsamplable |-> FALSE, last_samplable_window |-> FALSE]

\* the permutations of 1..n
Perms(n) == {p \in [1..n -> 1..n] : \A i \in 1..n, j \in 1..n : p[i] = p[j] => i = j}
Permuted(s, p) == [i \in 1..Len(s) |-> s[p[i]]]

\* Batch fetch: every panel of series of lengths lens with a given sample_mask
\* column (available_mask is not given), both modes, every policy; windows of
\* one input and one output step.
InitFetch ==
    \E lens \in AllLens :
    \E sm \in Bits(SumSeq(lens)) :
    \E mode \in {"simple", "full"} :
    \E ci \in BOOLEAN, co \in BOOLEAN, skip \in BOOLEAN, last \in BOOLEAN :
        InitWith(YRowsOf(PanelKeys(lens)), Some(XRowsOf(PanelKeys(lens))),
                 SRowsOf(PanelKeys(lens)),
                 Some(SampleMaskRows(PanelKeys(lens), sm)),
                 [Defaults EXCEPT !.mode = mode, !.input_size = 1, !.output_size = 1,
                                  !.complete_inputs = ci, !.complete_outputs = co,
                                  !.skip_nonsamplable = skip,
                                  !.last_samplable_window = last])

\* Samplability filter: one series with any available_mask and sample_mask,
\* every window geometry and both completeness policies.
InitFilter ==
    \E len \in 1..MaxRows :
    \E am \in Bits(len), sm \in Bits(len) :
    \E mode \in {"simple", "full"}, isz \in Sizes, osz \in Sizes :
    \E ci \in BOOLEAN, co \in BOOLEAN :
        InitWith(YRowsOf(PanelKeys(<<len>>)), Some(XRowsOf(PanelKeys(<<len>>))),
                 SRowsOf(PanelKeys(<<len>>)),
                 Some(MaskRows(PanelKeys(<<len>>), am, sm)),
                 [Defaults EXCEPT !.mode = mode, !.input_size = isz, !.output_size = osz,
                                  !.complete_inputs = ci, !.complete_outputs = co])

\* Window extraction: every panel shape under the default mask, every window
\* geometry (sizes, stride, sampling limit, chunk length), valid or not.
InitWindows ==
    \E lens \in AllLens :
    \E isz \in Sizes, osz \in Sizes, freq \in Sizes, limit \in Widths :
    \E mc \in {<<"simple", NoneVal>>, <<"full", NoneVal>>}
              \cup {<<"full", Some(w)>> : w \in Widths} :
        InitWith(YRowsOf(PanelKeys(lens)), Some(XRowsOf(PanelKeys(lens))),
                 SRowsOf(PanelKeys(lens)), NoRows,
                 [Defaults EXCEPT !.mode = mc[1], !.len_sample_chunks = mc[2],
                                  !.input_size = isz, !.output_size = osz,
                                  !.idx_to_sample_freq = freq,
                                  !.window_sampling_limit = limit])

\* Configuration: one series, every mode (one of them unknown) and geometry.
InitConfig ==
    \E len \in 1..MaxRows :
    \E isz \in Sizes, osz \in Sizes, limit \in Widths :
    \E mode \in {"simple", "full", "rolling"} :
    \E chunks \in {NoneVal} \cup {Some(w) : w \in 0..(2 * MaxSize + 1)} :
        InitWith(YRowsOf(PanelKeys(<<len>>)), NoRows, SRowsOf(PanelKeys(<<len>>)), NoRows,
                 [Defaults EXCEPT !.mode = mode, !.len_sample_chunks = chunks,
                                  !.input_size = isz, !.output_size = osz,
                                  !.window_sampling_limit = limit])

\* Tensor packing: every panel, its rows in any order, with or without
\* exogenous values, with any sample_mask column.
InitPack ==
    \E lens \in AllLens :
    \E p \in Perms(SumSeq(lens)), sm \in Bits(SumSeq(lens)), withX \in BOOLEAN :
        InitWith(Permuted(YRowsOf(PanelKeys(lens)), p),
                 IF withX THEN Some(XRowsOf(PanelKeys(lens))) ELSE NoRows,
                 SRowsOf(PanelKeys(lens)),
                 Some(Permuted(SampleMaskRows(PanelKeys(lens), sm), p)),
                 Defaults)

\* Default mask: a target table of at most MaxRows rows of two series, with
\* any timestamps and in any order, and no mask table.
MaskKeys == {<<u, d>> : u \in {1, 2}, d \in 1..MaxRows}
InitMask ==
    \E n \in 1..MaxRows :
    \E keys \in {k \in [1..n -> MaskKeys] : \A i \in 1..n, j \in 1..n : k[i] = k[j] => i = j} :
    \E k \in 0..MaxDsInTest, is_test \in BOOLEAN :
        InitWith(YRowsOf(keys), NoRows, SRowsOf(keys), NoRows,
                 [Defaults EXCEPT !.ds_in_test = k, !.is_test = is_test])

\* Retry: two series of two timestamps each, with any sample_mask, each series
\* available throughout or not at all, windows of one input and one output
\* step, complete or partial outputs, and skip_nonsamplable set.
RetryLens == <<2, 2>>
InitRetry ==
    \E av \in Bits(Len(RetryLens)), sm \in Bits(SumSeq(RetryLens)) :
    \E co \in BOOLEAN :
        LET keys == PanelKeys(RetryLens)
            am == [i \in 1..Len(keys) |-> av[keys[i][1]]]
        IN  InitWith(YRowsOf(keys), Some(XRowsOf(keys)), SRowsOf(keys),
                     Some(MaskRows(keys, am, sm)),
                     [Defaults EXCEPT !.input_size = 1, !.output_size = 1,
                                      !.complete_outputs = co,
                                      !.skip_nonsamplable = TRUE])

\* the recursive call whose own draw, when it has to retry again, starts with
\* series i
RecurseDrawing(i) == GetItemRecurse /\ pc' = "recurse" /\ pending'.list[1] = i
\* np.random.choice is fair: a series that can be drawn again and again as the
\* first of the list is drawn
FairChoice == \A i \in 0..(Len(RetryLens) - 1) : SF_vars(RecurseDrawing(i))

Fetching == GetItem \/ GetItemRecurse \/ Consume
Next == Construct \/ Fetching
Spec == InitFetch /\ [][Next]_vars

NextNoSkip == Construct \/ GetItem \/ Consume
SpecFilter == InitFilter /\ [][NextNoSkip]_vars
SpecWindows == InitWindows /\ [][NextNoSkip]_vars

\* the recursive call of line 521 is always carried out, and its draws are fair
SpecRetry == InitRetry /\ [][Next]_vars /\ WF_vars(GetItemRecurse) /\ FairChoice

SpecConfig == InitConfig /\ [][Construct]_vars
SpecPack == InitPack /\ [][Construct]_vars
SpecMask == InitMask /\ [][Construct]_vars

\* ================================================================== claims
\* What the claims speak of, read off the input tables by key and never through
\* the sorting and grouping of the model.
RowSet(rows) == {rows[i] : i \in 1..Len(rows)}
RowAt(rows, u, d) == CHOOSE r \in RowSet(rows) : Key(r) = <<u, d>>
UidSet == {r.unique_id : r \in RowSet(Y_df)}
\* the unique_id of the series of 0-based index i
UidOf(i) == CHOOSE u \in UidSet : Cardinality({v \in UidSet : v < u}) = i
DsSet(u) == {r.ds : r \in {q \in RowSet(Y_df) : q.unique_id = u}}
TrueLen(u) == Cardinality(DsSet(u))
\* the j-th timestamp of series u, j = 1, 2, ...
NthDs(u, j) == CHOOSE d \in DsSet(u) : Cardinality({e \in DsSet(u) : e < d}) = j - 1
\* the value series u carries in channel col at timestamp d
ChannelAt(u, d, col) ==
    CASE col = "y" -> RowAt(Y_df, u, d).y
      [] col = "x" -> RowAt(X_df.val, u, d).x
      [] col = "sample_mask" ->
            IF mask_df.some THEN RowAt(mask_df.val, u, d).sample_mask
            ELSE RowAt(built_mask, u, d).sample_mask
      [] col = "available_mask" ->
            IF mask_df.some /\ HasAvailable(mask_df.val)
            THEN RowAt(mask_df.val, u, d).available_mask
            ELSE 1

\* C1: after construction, for every series i of true length L, the columns
\* max_len-L .. max_len-1 of ts_tensor[i] hold the series' channel values in
\* timestamp order, the columns before them are zero in every channel, and
\* len_series[i] = L.
C1_LeftPadded ==
    phase = "ready" =>
        /\ Len(ts_tensor) = Cardinality(UidSet)
        /\ Len(len_series) = Cardinality(UidSet)
        /\ \A i \in 1..Len(ts_tensor) :
              LET u == UidOf(i - 1)
                  L == TrueLen(u)
              IN  /\ len_series[i] = L
                  /\ Len(ts_tensor[i]) = Len(t_cols)
                  /\ \A c \in 1..Len(t_cols) :
                        /\ Len(ts_tensor[i][c]) = max_len
                        /\ \A t \in 1..max_len :
                              ts_tensor[i][c][t] =
                                  IF t <= max_len - L THEN 0
                                  ELSE ChannelAt(u, NthDs(u, t - (max_len - L)), t_cols[c])

\* C1's case: a constructed panel whose rows were not given in order, with a
\* series shorter than the longest one.
C1_Witness ==
    /\ phase = "ready"
    /\ Keys(Y_df) # Keys(SortRows(Y_df))
    /\ \E i \in 1..Len(len_series) : len_series[i] < max_len
    /\ \E i \in 1..Len(len_series) : len_series[i] >= 2

\* C7: the default mask has one row per row of Y_df (same key, same place) with
\* available_mask = 1; in each series the min(k, length) last timestamps, and
\* only they, have sample_mask = 0, or 1 when is_test is set, and all earlier
\* ones the opposite.
C7_DefaultMask ==
    (phase = "ready" /\ ~mask_df.some) =>
        LET held == IF cfg.is_test THEN 1 ELSE 0
            rows(u) == {r \in RowSet(built_mask) : r.unique_id = u}
        IN  /\ Len(built_mask) = Len(Y_df)
            /\ \A i \in 1..Len(Y_df) :
                  /\ Key(built_mask[i]) = Key(Y_df[i])
                  /\ built_mask[i].available_mask = 1
                  /\ built_mask[i].sample_mask \in {held, 1 - held}
            /\ \A u \in UidSet :
                  /\ Cardinality({r \in rows(u) : r.sample_mask = held})
                        = Min(cfg.ds_in_test, TrueLen(u))
                  /\ \A a \in rows(u), b \in rows(u) :
                        (a.sample_mask = held /\ b.ds > a.ds) => b.sample_mask = held

\* C7's case: a default mask of a test set, of a table not given in order, with
\* ds_in_test above the length of one series and not of another.
C7_Witness ==
    /\ phase = "ready" /\ ~mask_df.some /\ cfg.is_test
    /\ Keys(Y_df) # Keys(SortRows(Y_df))
    /\ \E u \in UidSet : cfg.ds_in_test > TrueLen(u)
    /\ \E u \in UidSet : cfg.ds_in_test <= TrueLen(u)

\* the window width the configuration asks for: input_size + output_size in
\* simple mode, the chunk length (that sum by default) in full mode
EffectiveWidth ==
    IF cfg.mode = "full" /\ cfg.len_sample_chunks.some THEN cfg.len_sample_chunks.val
    ELSE cfg.input_size + cfg.output_size

Called == ret.kind # "none" \/ pc = "recurse"
\* the series indices of the latest activation's selection
SelIdxs == Resolve(local.idx, n_series)

AllOnes(s, from, to) == \A t \in from..to : s[t] = 1
\* the mask channels of a window: the last two channels
SampleMaskOf(w) == w[Len(w)]
AvailableMaskOf(w) == w[Len(w) - 1]

\* the three conditions of the samplability policy on one window
SamplableWindow(w) ==
    LET W == Len(SampleMaskOf(w))
        out == cfg.output_size
    IN  /\ AllOnes(SampleMaskOf(w), W - out + 1, W)
        /\ cfg.complete_inputs => AllOnes(AvailableMaskOf(w), 1, W - out)
        /\ cfg.complete_outputs => AllOnes(AvailableMaskOf(w), W - out, W)

SamplableSet(windows) == {k - 1 : k \in {j \in 1..Len(windows) : SamplableWindow(windows[j])}}

PadLeft == IF cfg.mode = "simple" THEN cfg.input_size ELSE 0
PadRight == IF cfg.mode = "simple" THEN cfg.output_size ELSE 0
FirstDs == Max(max_len - cfg.window_sampling_limit, 0)
PaddedLength == (max_len - FirstDs) + PadLeft + PadRight
WindowCount == ((PaddedLength - EffectiveWidth) \div cfg.idx_to_sample_freq) + 1

\* the extractor returned WindowCount windows for each selected series
CountsAsClaimed ==
    /\ local.unfolded
    /\ Len(local.windows) = Len(SelIdxs) * WindowCount
    /\ Len(local.s_matrix) = Len(SelIdxs) * WindowCount
    /\ Len(local.ts_idxs) = Len(SelIdxs) * WindowCount
    /\ \A p \in 1..Len(SelIdxs) :
          \A k \in ((p - 1) * WindowCount + 1)..(p * WindowCount) :
              local.ts_idxs[k] = SelIdxs[p]

PaddedAt(i, c, p) ==
    IF p < PadLeft \/ p >= PadLeft + (max_len - FirstDs) THEN 0
    ELSE ts_tensor[i + 1][c][FirstDs + (p - PadLeft) + 1]

\* the static row of the series of index i, read off S_df
StaticOf(i) == <<(CHOOSE r \in RowSet(S_df) : r.unique_id = UidOf(i)).s>>

\* C4: windows come series by series in selection order and, within a series,
\* by ascending start 0, S, 2S, ...; entry k of the series-index vector is the
\* series window k was sliced from and static row k is that series' static row.
C4_Order ==
    local.unfolded =>
        \A k \in 1..Len(local.windows) :
            LET i == SelIdxs[((k - 1) \div WindowCount) + 1]
                start == ((k - 1) % WindowCount) * cfg.idx_to_sample_freq
            IN  /\ local.ts_idxs[k] = i
                /\ local.s_matrix[k] = StaticOf(i)
                /\ Len(local.windows[k]) = Len(t_cols)
                /\ \A c \in 1..Len(t_cols) :
                      /\ Len(local.windows[k][c]) = windows_size
                      /\ \A w \in 1..windows_size :
                            local.windows[k][c][w] = PaddedAt(i, c, start + w - 1)

\* C4's case: the selection [1, 0], with a stride of 2 and more than one window
\* per series.
C4_Witness ==
    /\ local.unfolded /\ local.idx = ListSel(<<1, 0>>)
    /\ cfg.idx_to_sample_freq = 2 /\ WindowCount >= 2

C5_Distinct ==
    (ret.kind = "batch" /\ cfg.last_samplable_window) =>
        \A a \in 1..Len(ret.batch.idxs), b \in 1..Len(ret.batch.idxs) :
            a # b => ret.batch.idxs[a] # ret.batch.idxs[b]

\* the last samplable window, in extraction order, of series u in the latest
\* activation (a 0-based window index)
LastSamplable(u) ==
    LET mine == {k \in SamplableSet(local.windows) : local.ts_idxs[k + 1] = u}
    IN  CHOOSE k \in mine : \A j \in mine : j <= k

\* row r of the batch holds the channels of window w
RowIsWindow(r, w) ==
    /\ ret.batch.Y[r] = w[1]
    /\ ret.batch.X[r] = SubSeq(w, 2, Len(w) - 2)
    /\ ret.batch.available_mask[r] = AvailableMaskOf(w)
    /\ ret.batch.sample_mask[r] = SampleMaskOf(w)

\* C9: with last_samplable_window, a returned batch holds, for each distinct
\* series with a samplable window in the selection, exactly that series' last
\* samplable window, and nothing else.
C9_LastWindows ==
    (ret.kind = "batch" /\ cfg.last_samplable_window) =>
        LET series == {local.ts_idxs[k + 1] : k \in SamplableSet(local.windows)}
            rows == 1..Len(ret.batch.idxs)
        IN  /\ Len(ret.batch.idxs) = Cardinality(series)
            /\ Len(ret.batch.Y) = Cardinality(series)
            /\ \A u \in series :
                  \E r \in rows :
                      /\ ret.batch.idxs[r] = u
                      /\ RowIsWindow(r, local.windows[LastSamplable(u) + 1])

\* C10: in every returned batch all fields have the same number of rows, static
\* row k is the static row of the series that identifier row k names, and the
\* target, exogenous and mask rows k come from a window of that series.
C10_RowsAgree ==
    ret.kind = "batch" =>
        LET n == Len(ret.batch.idxs)
        IN  /\ Len(ret.batch.S) = n /\ Len(ret.batch.Y) = n /\ Len(ret.batch.X) = n
            /\ Len(ret.batch.available_mask) = n /\ Len(ret.batch.sample_mask) = n
            /\ \A r \in 1..n :
                  /\ ret.batch.S[r] = StaticOf(ret.batch.idxs[r])
                  /\ \E j \in 1..Len(local.windows) :
                        /\ local.ts_idxs[j] = ret.batch.idxs[r]
                        /\ RowIsWindow(r, local.windows[j])

\* the series with index i (0-based), fetched alone, has a samplable window
SamplableAlone(i) ==
    LET ext == create_windows_tensor(<<i>>)
    IN  ext.ok /\ get_samplable_windows_idxs(ext.windows) # <<>>
\* the members of the precomputed samplable-series set
SamplableMembers == {samplable_ts_idxs[k] : k \in 1..Len(samplable_ts_idxs)}
\* a fetch is under way: a retry has been drawn and not yet carried out
Retrying == phase = "ready" /\ pc = "recurse"

\* C11: with skip_nonsamplable set and a non-empty precomputed set, a fetch
\* that has to retry eventually returns a batch, under fair random choice.
C11_EventuallyBatch ==
    (Retrying /\ cfg.skip_nonsamplable /\ SamplableMembers # {})
        ~> (pc = "idle" /\ ret.kind = "batch")

\* What does hold of the retries: they end with a batch whenever some member of
\* the precomputed set has a samplable window of its own.
RetryEndsWithSamplableMember ==
    (Retrying /\ \E i \in SamplableMembers : SamplableAlone(i))
        ~> (pc = "idle" /\ ret.kind = "batch")
\* a retry whose precomputed set holds no series with a samplable window
RetryStuck ==
    Retrying /\ SamplableMembers # {} /\ \A i \in SamplableMembers : ~SamplableAlone(i)
\* a retry whose draw decides: one member has a samplable window, another not
RetryDrawMatters ==
    /\ Retrying
    /\ \E i \in SamplableMembers : SamplableAlone(i)
    /\ \E i \in SamplableMembers : ~SamplableAlone(i)

\* C12: every series that, fetched alone, has a samplable window under the
\* configured policy is in the precomputed samplable-series set.
C12_NecessaryScreen ==
    phase = "ready" =>
        \A i \in 0..(n_series - 1) : SamplableAlone(i) => i \in SamplableMembers

\* What the precomputed set is: the series whose sample_mask count over the
\* whole history is strictly above the threshold.
SampleCount(i) == SumSeq(ts_tensor[i + 1][Index(t_cols, "sample_mask") + 1])
ScreenIsCount ==
    phase = "ready" =>
        SamplableMembers = {i \in 0..(n_series - 1) :
            SampleCount(i) > (IF cfg.complete_inputs THEN windows_size
                              ELSE cfg.output_size)}

\* what the dataset holds once built and a fetch may not touch
Built == <<ts_tensor, s_matrix, len_series, windows_size, padding, samplable_ts_idxs>>
\* what a fetch of the selection sel gives without skipping, from what the
\* dataset holds now
FetchOf(sel) ==
    LET ext == create_windows_tensor(Resolve(sel, n_series))
        windows_idxs == get_samplable_windows_idxs(ext.windows)
    IN  IF ~ext.ok THEN [kind |-> "raise", exc |-> "RuntimeError"]
        ELSE IF windows_idxs = <<>> THEN [kind |-> "raise", exc |-> "NotSamplable"]
        ELSE [kind |-> "batch", batch |-> Batch(ext, windows_idxs)]
\* the outcome a fetch left behind
Outcome ==
    IF ret.kind = "batch" THEN [kind |-> "batch", batch |-> ret.batch]
    ELSE [kind |-> ret.kind, exc |-> ret.exc]

====
